---- MODULE Spec2Model ----
(***************************************************************************)
(* Whalen Protocol backend: the match lifecycle (MatchingService), the     *)
(* payment/escrow workflow (PaymentService) and work verification          *)
(* (VerificationService) over the relational store of schema.sql.          *)
(*                                                                         *)
(* Rows are records; a table is a sequence of rows and a row's id is its   *)
(* index (ids are fresh UUIDs in the code, rows are never deleted by the   *)
(* operations modelled).  NULL columns hold the string "NULL", a NULL      *)
(* transaction_hash holds 0.  Timestamps written by `new Date()` hold      *)
(* "set".                                                                  *)
(***************************************************************************)
EXTENDS Integers, Sequences, FiniteSets, TLC

\* ---- bounds of the model ------------------------------------------------
MaxMatches == 2
MaxTx == 1
MaxVerif == 1

\* ---- the agents, the advertised capabilities and the requests -----------
Agents == {"alice", "bob", "carol"}

\* provider_capabilities JOIN agents: prices and max prices are in tenths of
\* a currency unit, reputation10 is reputation_score * 10.
Capabilities ==
  << [provider_id |-> "bob", gpu_count |-> 8, gpu_type |-> "H100",
      price_per_hour |-> 455, available_hours |-> 100, region |-> "us-east-1",
      availability_status |-> "available", reputation10 |-> 48],
     [provider_id |-> "carol", gpu_count |-> 8, gpu_type |-> "H100",
      price_per_hour |-> 490, available_hours |-> 1, region |-> "us-east-1",
      availability_status |-> "available", reputation10 |-> 50],
     [provider_id |-> "carol", gpu_count |-> 4, gpu_type |-> "A100",
      price_per_hour |-> 200, available_hours |-> 10, region |-> "eu-west-1",
      availability_status |-> "busy", reputation10 |-> 50],
     [provider_id |-> "carol", gpu_count |-> 8, gpu_type |-> "H100",
      price_per_hour |-> 440, available_hours |-> 1, region |-> "us-east-1",
      availability_status |-> "available", reputation10 |-> 50] >>

CapabilityIds == DOMAIN Capabilities

\* compute_requests: the columns the operations never write.
RequestRows ==
  << [requester_id |-> "alice", gpu_count |-> 8, gpu_type |-> "H100",
      duration_hours |-> 2, max_price_per_hour |-> 500, region |-> "NULL"],
     [requester_id |-> "alice", gpu_count |-> 4, gpu_type |-> "A100",
      duration_hours |-> 2, max_price_per_hour |-> 300, region |-> "NULL"] >>

RequestIds == DOMAIN RequestRows

\* Ids a caller may name: one more than can exist, so that "not found" happens.
MatchIds == 1..(MaxMatches + 1)
TxIds == 1..(MaxTx + 1)
VerifIds == 1..(MaxVerif + 1)
AnyRequestIds == RequestIds \cup {Len(RequestRows) + 1}

Amounts == {-1, 0, 5}
\* the notes of the verify route: req.body.notes || ''
Notes == {"", "as agreed"}
\* the payloads of the submit-proof route: req.body.proofData
WorkProof == <<<<"gpu_hours", 2>>, <<"exit_code", 0>>>>
ProofData == {WorkProof, <<<<"exit_code", 0>>, <<"gpu_hours", 2>>>>,
              <<<<"gpu_hours", 3>>>>}

VARIABLES
  requests,       \* compute_requests.status, by request id
  matches,        \* the matches table
  transactions,   \* the transactions table
  intents,        \* the processor's payment intents
  verifications,  \* the verifications table
  acc,            \* the acceptMatch calls in flight, by calling process
  ret             \* the outcome of the last call that returned

vars == <<requests, matches, transactions, intents, verifications, acc, ret>>

Procs == {"p1", "p2"}

\* ---- the values the store hands to the code --------------------------------
\* The pool of config/database.js sets no type parser: a DECIMAL(18, 8) column
\* (price_per_hour, max_price_per_hour) comes back as its text, INT and FLOAT
\* columns (gpu_count, available_hours, duration_hours, reputation_score) as
\* numbers.  A text is the sequence of its character codes.
RECURSIVE DigitCodes(_)
DigitCodes(n) ==
  IF n < 10 THEN <<48 + n>> ELSE Append(DigitCodes(n \div 10), 48 + (n % 10))

\* The text of a DECIMAL(18, 8) value given in tenths: 455 is "45.50000000".
DecimalText(tenths) ==
  DigitCodes(tenths \div 10) \o <<46, 48 + (tenths % 10)>> \o [i \in 1..7 |-> 48]

\* x < y of two strings: by code units, a proper prefix first.
RECURSIVE StringLess(_, _)
StringLess(x, y) ==
  IF y = << >> THEN FALSE
  ELSE IF x = << >> THEN TRUE
  ELSE IF Head(x) # Head(y) THEN Head(x) < Head(y)
  ELSE StringLess(Tail(x), Tail(y))

\* A request read from compute_requests (ComputeRequest.findById), as against
\* the object the discovery route builds with parseInt and parseFloat.
IsStoredRow(request) == "requester_id" \in DOMAIN request

\* ---- helpers.js ----------------------------------------------------------

\* capability.price_per_hour <= request.max_price_per_hour: of two strings
\* by code units, of a string and a number by their numeric values.
PriceWithinMax(request, capability) ==
  IF IsStoredRow(request)
  THEN ~ StringLess(DecimalText(request.max_price_per_hour),
                    DecimalText(capability.price_per_hour))
  ELSE capability.price_per_hour <= request.max_price_per_hour

\* calculateMatchScore, times 10 * request.max_price_per_hour (an integer for
\* integer prices; the factor is the same for every capability of a request).
calculateMatchScore(request, capability) ==
  LET mx == request.max_price_per_hour
      gpu == IF capability.gpu_count >= request.gpu_count THEN 20 ELSE -30
      price10mx == IF PriceWithinMax(request, capability)
                   THEN 200 * (mx - capability.price_per_hour)
                   ELSE -40 * 10 * mx
      avail == IF capability.available_hours >= request.duration_hours
               THEN 15 ELSE -20
      rep10 == IF capability.reputation10 = 0 THEN 50
               ELSE capability.reputation10
      score == (100 + gpu + avail) * 10 * mx + price10mx + 2 * rep10 * mx
  IN IF score < 0 THEN 0 ELSE score

\* ---- ProviderCapability.search ------------------------------------------
\* A variant of search without the condition on availability_status.
searchAnyStatus(gpuCount, gpuType, maxPrice, region) ==
  { c \in CapabilityIds :
      /\ Capabilities[c].gpu_count >= gpuCount
      /\ Capabilities[c].gpu_type = gpuType
      /\ Capabilities[c].price_per_hour <= maxPrice
      /\ (region # "NULL" => Capabilities[c].region = region) }

search(gpuCount, gpuType, maxPrice, region) ==
  { c \in CapabilityIds :
      /\ Capabilities[c].gpu_count >= gpuCount
      /\ Capabilities[c].gpu_type = gpuType
      /\ Capabilities[c].price_per_hour <= maxPrice
      /\ Capabilities[c].availability_status = "available"
      /\ (region # "NULL" => Capabilities[c].region = region) }

\* ORDER BY pc.price_per_hour ASC, a.reputation_score DESC
SearchBefore(c, d) ==
  \/ Capabilities[c].price_per_hour < Capabilities[d].price_per_hour
  \/ /\ Capabilities[c].price_per_hour = Capabilities[d].price_per_hour
     /\ Capabilities[c].reputation10 > Capabilities[d].reputation10

\* ---- MatchingService.findMatches(request, 1) ----------------------------
\* The capabilities that can be first after the stable sort by descending
\* score of the search result: a highest score, and among equal scores the
\* first in search order (rows equal in the ORDER BY keys come in any order).
BestProviders(request) ==
  LET found == search(request.gpu_count, request.gpu_type,
                      request.max_price_per_hour, request.region)
      s(c) == calculateMatchScore(request, Capabilities[c])
  IN { c \in found :
         \A d \in found : ~ (s(d) > s(c) \/ (s(d) = s(c) /\ SearchBefore(d, c))) }

\* ---- MatchingService.findMatches(request, limit) ------------------------
\* c is before d after scoredProviders.sort((a, b) => b.match_score -
\* a.match_score), a stable sort of the rows in search order.
SortedBefore(request, c, d) ==
  LET s(x) == calculateMatchScore(request, Capabilities[x])
  IN s(c) > s(d) \/ (s(c) = s(d) /\ SearchBefore(c, d))

\* A variant of findMatches that leaves the rows in the order of the search.
findMatchesUnsorted(request, limit) ==
  LET found == search(request.gpu_count, request.gpu_type,
                      request.max_price_per_hour, request.region)
      n == Cardinality(found)
      listed == { p \in [1..n -> found] :
                    /\ \A c \in found : \E i \in 1..n : p[i] = c
                    /\ \A i, j \in 1..n : i < j => ~ SearchBefore(p[j], p[i]) }
  IN { SubSeq(p, 1, IF n < limit THEN n ELSE limit) : p \in listed }

\* The lists findMatches can return: the search result in sorted order, cut
\* to the first limit rows.
findMatches(request, limit) ==
  LET found == search(request.gpu_count, request.gpu_type,
                      request.max_price_per_hour, request.region)
      n == Cardinality(found)
      sorted == { p \in [1..n -> found] :
                    /\ \A c \in found : \E i \in 1..n : p[i] = c
                    /\ \A i, j \in 1..n :
                         i < j => ~ SortedBefore(request, p[j], p[i]) }
  IN { SubSeq(p, 1, IF n < limit THEN n ELSE limit) : p \in sorted }

\* ---- the result of a call -----------------------------------------------
Ret(op, outcome) == [op |-> op, outcome |-> outcome, refunds |-> << >>]

IdleAcc == [pc |-> "idle", id |-> 0, seen |-> "NULL", outcome |-> "none"]

Init ==
  /\ requests = [r \in RequestIds |-> "pending"]
  /\ matches = << >>
  /\ transactions = << >>
  /\ intents = << >>
  /\ verifications = << >>
  /\ acc = [p \in Procs |-> IdleAcc]
  /\ ret = Ret("none", "none")

\* ---- Match.create / Match.update / ComputeRequest.update ----------------
MatchCreate(requestId, providerId, capabilityId, agreedPricePerHour) ==
  Append(matches, [request_id |-> requestId, provider_id |-> providerId,
                   capability_id |-> capabilityId,
                   agreed_price_per_hour |-> agreedPricePerHour,
                   status |-> "proposed",
                   start_time |-> "NULL", end_time |-> "NULL"])

\* ---- MatchingService.autoMatch ------------------------------------------
\* A variant of autoMatch that marks the request matched before it looks for
\* candidates.
AutoMatchMarksFirst(requestId) ==
  /\ UNCHANGED <<transactions, intents, verifications, acc>>
  /\ IF requestId \notin RequestIds
     THEN /\ ret' = Ret("autoMatch", "NotFound")
          /\ UNCHANGED <<requests, matches>>
     ELSE /\ requests' = [requests EXCEPT ![requestId] = "matched"]
          /\ IF BestProviders(RequestRows[requestId]) = {}
             THEN /\ ret' = Ret("autoMatch", "null")
                  /\ UNCHANGED matches
             ELSE /\ Len(matches) < MaxMatches
                  /\ \E best \in BestProviders(RequestRows[requestId]) :
                       matches' = MatchCreate(requestId,
                                              Capabilities[best].provider_id,
                                              best, Capabilities[best].price_per_hour)
                  /\ ret' = Ret("autoMatch", "ok")

\* A variant of autoMatch that takes any row of the search result.
AutoMatchAnyCandidate(requestId) ==
  /\ UNCHANGED <<transactions, intents, verifications, acc>>
  /\ IF requestId \notin RequestIds
     THEN /\ ret' = Ret("autoMatch", "NotFound")
          /\ UNCHANGED <<requests, matches>>
     ELSE IF BestProviders(RequestRows[requestId]) = {}
     THEN /\ ret' = Ret("autoMatch", "null")
          /\ UNCHANGED <<requests, matches>>
     ELSE /\ Len(matches) < MaxMatches
          /\ \E best \in search(RequestRows[requestId].gpu_count,
                                 RequestRows[requestId].gpu_type,
                                 RequestRows[requestId].max_price_per_hour,
                                 RequestRows[requestId].region) :
               matches' = MatchCreate(requestId, Capabilities[best].provider_id,
                                      best, Capabilities[best].price_per_hour)
          /\ requests' = [requests EXCEPT ![requestId] = "matched"]
          /\ ret' = Ret("autoMatch", "ok")

AutoMatch(requestId) ==
  /\ UNCHANGED <<transactions, intents, verifications, acc>>
  /\ IF requestId \notin RequestIds
     THEN /\ ret' = Ret("autoMatch", "NotFound")
          /\ UNCHANGED <<requests, matches>>
     ELSE IF BestProviders(RequestRows[requestId]) = {}
     THEN /\ ret' = Ret("autoMatch", "null")
          /\ UNCHANGED <<requests, matches>>
     ELSE /\ Len(matches) < MaxMatches
          /\ \E best \in BestProviders(RequestRows[requestId]) :
               matches' = MatchCreate(requestId, Capabilities[best].provider_id,
                                      best, Capabilities[best].price_per_hour)
          /\ requests' = [requests EXCEPT ![requestId] = "matched"]
          /\ ret' = Ret("autoMatch", "ok")

\* ---- MatchingService.acceptMatch ----------------------------------------
\* The two writes of acceptMatch.
AcceptedMatches(matchId) ==
  [matches EXCEPT ![matchId].status = "accepted", ![matchId].start_time = "set"]

InProgressRequests(matchId) ==
  [requests EXCEPT ![matches[matchId].request_id] = "in_progress"]

\* A variant of acceptMatch that cancels the request's other matches.
AcceptMatchExclusive(matchId, providerId) ==
  /\ UNCHANGED <<transactions, intents, verifications, acc>>
  /\ IF matchId \notin DOMAIN matches
     THEN /\ ret' = Ret("acceptMatch", "NotFound")
          /\ UNCHANGED <<requests, matches>>
     ELSE IF matches[matchId].provider_id # providerId
     THEN /\ ret' = Ret("acceptMatch", "Unauthorized")
          /\ UNCHANGED <<requests, matches>>
     ELSE /\ matches' = [n \in DOMAIN matches |->
                          IF n = matchId THEN AcceptedMatches(matchId)[n]
                          ELSE IF matches[n].request_id = matches[matchId].request_id
                          THEN [matches[n] EXCEPT !.status = "cancelled"]
                          ELSE matches[n]]
          /\ requests' = InProgressRequests(matchId)
          /\ ret' = Ret("acceptMatch", "ok")

\* A variant of acceptMatch that does not compare the caller with provider_id.
AcceptMatchAnyCaller(matchId, providerId) ==
  /\ UNCHANGED <<transactions, intents, verifications, acc>>
  /\ IF matchId \notin DOMAIN matches
     THEN /\ ret' = Ret("acceptMatch", "NotFound")
          /\ UNCHANGED <<requests, matches>>
     ELSE /\ matches' = AcceptedMatches(matchId)
          /\ requests' = InProgressRequests(matchId)
          /\ ret' = Ret("acceptMatch", "ok")

\* The whole call, with no other call between its store round trips.
AcceptMatch(matchId, providerId) ==
  /\ UNCHANGED <<transactions, intents, verifications, acc>>
  /\ IF matchId \notin DOMAIN matches
     THEN /\ ret' = Ret("acceptMatch", "NotFound")
          /\ UNCHANGED <<requests, matches>>
     ELSE IF matches[matchId].provider_id # providerId
     THEN /\ ret' = Ret("acceptMatch", "Unauthorized")
          /\ UNCHANGED <<requests, matches>>
     ELSE /\ matches' = AcceptedMatches(matchId)
          /\ requests' = InProgressRequests(matchId)
          /\ ret' = Ret("acceptMatch", "ok")

\* The same call as the steps between which other calls run: one step per
\* store round trip.  Match.findById and the provider check:
AcceptFind(p, matchId, providerId) ==
  /\ acc[p].pc = "idle"
  /\ UNCHANGED <<requests, matches, transactions, intents, verifications, ret>>
  /\ IF matchId \notin DOMAIN matches
     THEN acc' = [acc EXCEPT ![p] = [IdleAcc EXCEPT !.outcome = "NotFound"]]
     ELSE IF matches[matchId].provider_id # providerId
     THEN acc' = [acc EXCEPT ![p] = [IdleAcc EXCEPT !.outcome = "Unauthorized"]]
     ELSE acc' = [acc EXCEPT ![p] = [pc |-> "update", id |-> matchId,
                                     seen |-> matches[matchId].status,
                                     outcome |-> "none"]]

\* Match.update(matchId, {status: 'accepted', start_time: new Date()})
AcceptUpdateMatch(p) ==
  /\ acc[p].pc = "update"
  /\ matches' = AcceptedMatches(acc[p].id)
  /\ acc' = [acc EXCEPT ![p].pc = "request"]
  /\ UNCHANGED <<requests, transactions, intents, verifications, ret>>

\* ComputeRequest.update(match.request_id, {status: 'in_progress'}); return
AcceptUpdateRequest(p) ==
  /\ acc[p].pc = "request"
  /\ requests' = InProgressRequests(acc[p].id)
  /\ acc' = [acc EXCEPT ![p].pc = "idle", ![p].outcome = "ok"]
  /\ UNCHANGED <<matches, transactions, intents, verifications, ret>>

\* ---- MatchingService.completeMatch --------------------------------------
\* A variant of completeMatch that leaves the parent request as it is.
CompleteMatchOnly(matchId, providerId) ==
  /\ UNCHANGED <<transactions, intents, verifications, acc>>
  /\ IF matchId \notin DOMAIN matches
     THEN /\ ret' = Ret("completeMatch", "NotFound")
          /\ UNCHANGED <<requests, matches>>
     ELSE IF matches[matchId].provider_id # providerId
     THEN /\ ret' = Ret("completeMatch", "Unauthorized")
          /\ UNCHANGED <<requests, matches>>
     ELSE /\ matches' = [matches EXCEPT ![matchId].status = "completed",
                                        ![matchId].end_time = "set"]
          /\ UNCHANGED requests
          /\ ret' = Ret("completeMatch", "ok")

CompleteMatch(matchId, providerId) ==
  /\ UNCHANGED <<transactions, intents, verifications, acc>>
  /\ IF matchId \notin DOMAIN matches
     THEN /\ ret' = Ret("completeMatch", "NotFound")
          /\ UNCHANGED <<requests, matches>>
     ELSE IF matches[matchId].provider_id # providerId
     THEN /\ ret' = Ret("completeMatch", "Unauthorized")
          /\ UNCHANGED <<requests, matches>>
     ELSE /\ matches' = [matches EXCEPT ![matchId].status = "completed",
                                        ![matchId].end_time = "set"]
          /\ requests' = [requests EXCEPT ![matches[matchId].request_id] = "completed"]
          /\ ret' = Ret("completeMatch", "ok")

\* ---- MatchingService.cancelMatch ----------------------------------------
\* A variant of cancelMatch that puts the parent request back to pending.
CancelMatchReverting(matchId, agentId) ==
  /\ UNCHANGED <<transactions, intents, verifications, acc>>
  /\ IF matchId \notin DOMAIN matches
     THEN /\ ret' = Ret("cancelMatch", "NotFound")
          /\ UNCHANGED <<requests, matches>>
     ELSE /\ matches' = [matches EXCEPT ![matchId].status = "cancelled"]
          /\ requests' = [requests EXCEPT ![matches[matchId].request_id] = "pending"]
          /\ ret' = Ret("cancelMatch", "ok")

CancelMatch(matchId, agentId) ==
  /\ UNCHANGED <<requests, transactions, intents, verifications, acc>>
  /\ IF matchId \notin DOMAIN matches
     THEN /\ ret' = Ret("cancelMatch", "NotFound")
          /\ UNCHANGED matches
     ELSE /\ matches' = [matches EXCEPT ![matchId].status = "cancelled"]
          /\ ret' = Ret("cancelMatch", "ok")

\* ---- the store rejects a write of a lifecycle call -----------------------
\* pool.query rejects; the catch block of the service logs the error and
\* throws it again as it is, whichever statement it came from.
StoreFailure(op) == Ret(op, "StoreError")

\* served: the number of writes the store serves before it rejects one.
\* autoMatch: Match.create, then ComputeRequest.update.
AutoMatchStoreError(requestId, served) ==
  /\ requestId \in RequestIds
  /\ BestProviders(RequestRows[requestId]) # {}
  /\ UNCHANGED <<requests, transactions, intents, verifications, acc>>
  /\ ret' = StoreFailure("autoMatch")
  /\ IF served = 0
     THEN UNCHANGED matches
     ELSE /\ Len(matches) < MaxMatches
          /\ \E best \in BestProviders(RequestRows[requestId]) :
               matches' = MatchCreate(requestId, Capabilities[best].provider_id,
                                      best, Capabilities[best].price_per_hour)

\* acceptMatch: Match.update, then ComputeRequest.update.
AcceptMatchStoreError(matchId, providerId, served) ==
  /\ matchId \in DOMAIN matches
  /\ matches[matchId].provider_id = providerId
  /\ UNCHANGED <<requests, transactions, intents, verifications, acc>>
  /\ ret' = StoreFailure("acceptMatch")
  /\ IF served = 0
     THEN UNCHANGED matches
     ELSE matches' = AcceptedMatches(matchId)

\* completeMatch: Match.update, then ComputeRequest.update.
CompleteMatchStoreError(matchId, providerId, served) ==
  /\ matchId \in DOMAIN matches
  /\ matches[matchId].provider_id = providerId
  /\ UNCHANGED <<requests, transactions, intents, verifications, acc>>
  /\ ret' = StoreFailure("completeMatch")
  /\ IF served = 0
     THEN UNCHANGED matches
     ELSE matches' = [matches EXCEPT ![matchId].status = "completed",
                                     ![matchId].end_time = "set"]

\* ---- discovery ------------------------------------------------------------
\* The queries a caller of ProviderCapability.search may make.
QueryGpuCounts == {4, 8, 9}
QueryGpuTypes == {"H100", "A100", "h100"}
QueryMaxPrices == {199, 200, 455, 489, 490, 500}
QueryRegions == {"NULL", "us-east-1", "eu-west-1"}

\* ProviderCapability.search, its rows handed to the caller.
SearchCall(gpuCount, gpuType, maxPrice, region) ==
  /\ UNCHANGED <<requests, matches, transactions, intents, verifications, acc>>
  /\ ret' = [op |-> "search", outcome |-> "ok", refunds |-> << >>,
             query |-> [gpu_count |-> gpuCount, gpu_type |-> gpuType,
                        max_price_per_hour |-> maxPrice, region |-> region],
             rows |-> search(gpuCount, gpuType, maxPrice, region)]

\* POST /api/v1/requests/:requestId/find-matches
FindMatchesRoute(requestId, agentId) ==
  /\ UNCHANGED <<requests, matches, transactions, intents, verifications, acc>>
  /\ IF requestId \notin RequestIds
     THEN ret' = Ret("findMatches", "NotFound")
     ELSE IF RequestRows[requestId].requester_id # agentId
     THEN ret' = Ret("findMatches", "Unauthorized")
     ELSE \E rows \in findMatches(RequestRows[requestId], 10) :
            ret' = [op |-> "findMatches", outcome |-> "ok", refunds |-> << >>,
                    request_id |-> requestId, rows |-> rows]

\* The requests the discovery route builds from a client's body, and the
\* limits of the callers of findMatches (1 in autoMatch, 10 in the routes) with
\* one between them.
QueryDurations == {1, 2}
Limits == {1, 2, 10}

AdHocRequests ==
  [gpu_count : QueryGpuCounts, gpu_type : QueryGpuTypes,
   duration_hours : QueryDurations, max_price_per_hour : QueryMaxPrices,
   region : QueryRegions]

\* MatchingService.findMatches(request, limit), its list handed to the caller.
FindMatchesCall(request, limit) ==
  /\ UNCHANGED <<requests, matches, transactions, intents, verifications, acc>>
  /\ \E rows \in findMatches(request, limit) :
       ret' = [op |-> "MatchingService.findMatches", outcome |-> "ok",
               refunds |-> << >>, request |-> request, limit |-> limit,
               rows |-> rows]

\* ---- the calls of calculateMatchScore --------------------------------------
\* findMatches scores the rows of the search for its request: a row of
\* provider_capabilities joined with its agent, against a stored request or
\* one built by the discovery route.  Prices in tenths: 9.0, 10.0, 45.5,
\* 49.0, 50.0 and 100.0.
ScorePrices == {90, 100, 455, 490, 500, 1000}
ScoreMaxPrices == {500, 1000}
ScoreReputations == {0, 10, 48, 50, 100}

ScoreRequests ==
  [gpu_count : {8}, gpu_type : {"H100"}, duration_hours : {2},
   max_price_per_hour : ScoreMaxPrices, region : {"NULL"}]
  \cup
  [requester_id : {"alice"}, gpu_count : {8}, gpu_type : {"H100"},
   duration_hours : {2}, max_price_per_hour : ScoreMaxPrices, region : {"NULL"}]

ScoreCapabilities ==
  [provider_id : {"bob"}, gpu_count : {8, 16}, gpu_type : {"H100"},
   price_per_hour : ScorePrices, available_hours : {1, 100},
   region : {"us-east-1"}, availability_status : {"available"},
   reputation10 : ScoreReputations]

\* match_score: calculateMatchScore(request, provider) for a row that the
\* WHERE clause of the search lets through.
ScoreCall(request, capability) ==
  /\ capability.gpu_count >= request.gpu_count
  /\ capability.price_per_hour <= request.max_price_per_hour
  /\ UNCHANGED <<requests, matches, transactions, intents, verifications, acc>>
  /\ ret' = [op |-> "calculateMatchScore", outcome |-> "ok", refunds |-> << >>,
             request |-> request, capability |-> capability,
             match_score |-> calculateMatchScore(request, capability)]

\* ---- PATCH /api/v1/requests/:requestId -----------------------------------
\* The values of req.body.status: none, the values the CHECK constraint of
\* compute_requests.status lets in, and one it does not.
RequestStatuses ==
  {"pending", "matched", "in_progress", "completed", "failed", "cancelled"}

PatchStatuses == RequestStatuses \cup {"", "archived"}

PatchRequest(requestId, agentId, status) ==
  /\ UNCHANGED <<matches, transactions, intents, verifications, acc>>
  /\ IF requestId \notin RequestIds
     THEN /\ ret' = Ret("patchRequest", "NotFound")
          /\ UNCHANGED requests
     ELSE IF RequestRows[requestId].requester_id # agentId
     THEN /\ ret' = Ret("patchRequest", "Unauthorized")
          /\ UNCHANGED requests
     ELSE IF status = ""
     THEN /\ ret' = Ret("patchRequest", "InvalidInput")
          /\ UNCHANGED requests
     ELSE IF status \notin RequestStatuses
     THEN /\ ret' = StoreFailure("patchRequest")
          /\ UNCHANGED requests
     ELSE /\ requests' = [requests EXCEPT ![requestId] = status]
          /\ ret' = Ret("patchRequest", "ok")

\* ---- PaymentService.createPaymentIntent ---------------------------------
\* stripe.paymentIntents.create, then the INSERT of the transaction row.
\* processorOk: the processor call returns (it throws otherwise).  An intent's
\* transactionId is the transaction id the call returns to its client
\* together with the intent's id (0 when the call returned none).
createPaymentIntent(matchId, amount, requesterId, providerId, processorOk) ==
  /\ UNCHANGED <<requests, matches, verifications, acc>>
  /\ IF ~ processorOk
     THEN /\ ret' = Ret("createPaymentIntent", "ExternalPaymentError")
          /\ UNCHANGED <<transactions, intents>>
     ELSE /\ Len(transactions) < MaxTx
          /\ intents' = Append(intents, [status |-> "requires_payment_method",
                                         amount |-> amount * 100,
                                         matchId |-> matchId,
                                         transactionId |-> Len(transactions) + 1,
                                         refunded |-> FALSE])
          /\ transactions' = Append(transactions,
               [match_id |-> matchId, requester_id |-> requesterId,
                provider_id |-> providerId, amount |-> amount,
                status |-> "pending", transaction_hash |-> 0])
          /\ ret' = Ret("createPaymentIntent", "ok")

\* A variant of the create-intent route without the check of the amount.
CreateIntentAnyAmount(matchId, amount, agentId, processorOk) ==
  IF matchId \notin DOMAIN matches
  THEN /\ ret' = Ret("createPaymentIntent", "NotFound")
       /\ UNCHANGED <<requests, matches, transactions, intents, verifications, acc>>
  ELSE IF RequestRows[matches[matchId].request_id].requester_id # agentId
  THEN /\ ret' = Ret("createPaymentIntent", "Unauthorized")
       /\ UNCHANGED <<requests, matches, transactions, intents, verifications, acc>>
  ELSE createPaymentIntent(matchId, amount,
                           RequestRows[matches[matchId].request_id].requester_id,
                           matches[matchId].provider_id, processorOk)

\* POST /api/v1/payments/create-intent, the only caller of createPaymentIntent
\* (req.app.locals.pool, which index.js does not assign, is taken to be the
\* pool of config/database.js that every other query uses).
CreateIntent(matchId, amount, agentId, processorOk) ==
  IF amount = 0 \/ amount <= 0
  THEN /\ ret' = Ret("createPaymentIntent", "InvalidInput")
       /\ UNCHANGED <<requests, matches, transactions, intents, verifications, acc>>
  ELSE IF matchId \notin DOMAIN matches
  THEN /\ ret' = Ret("createPaymentIntent", "NotFound")
       /\ UNCHANGED <<requests, matches, transactions, intents, verifications, acc>>
  ELSE IF RequestRows[matches[matchId].request_id].requester_id # agentId
  THEN /\ ret' = Ret("createPaymentIntent", "Unauthorized")
       /\ UNCHANGED <<requests, matches, transactions, intents, verifications, acc>>
  ELSE createPaymentIntent(matchId, amount,
                           RequestRows[matches[matchId].request_id].requester_id,
                           matches[matchId].provider_id, processorOk)

\* create-intent when the store rejects the INSERT of the transaction row:
\* the processor has created the intent by then, and the call fails.
CreateIntentStoreError(matchId, amount, agentId) ==
  /\ amount > 0
  /\ matchId \in DOMAIN matches
  /\ RequestRows[matches[matchId].request_id].requester_id = agentId
  /\ Len(intents) < MaxTx + 1
  /\ intents' = Append(intents, [status |-> "requires_payment_method",
                                 amount |-> amount * 100,
                                 matchId |-> matchId,
                                 transactionId |-> 0,
                                 refunded |-> FALSE])
  /\ ret' = StoreFailure("createPaymentIntent")
  /\ UNCHANGED <<requests, matches, transactions, verifications, acc>>

\* ---- the payer completes the payment at the processor -------------------
PayIntent(i) ==
  /\ i \in DOMAIN intents
  /\ intents[i].status = "requires_payment_method"
  /\ intents' = [intents EXCEPT ![i].status = "succeeded"]
  /\ UNCHANGED <<requests, matches, transactions, verifications, acc, ret>>

\* ---- PaymentService.confirmPayment --------------------------------------
\* A variant of confirmPayment that does not look at the intent's status.
confirmPaymentUnchecked(paymentIntentId, transactionId, processorOk) ==
  /\ UNCHANGED <<requests, matches, intents, verifications, acc>>
  /\ IF ~ processorOk \/ paymentIntentId \notin DOMAIN intents
     THEN /\ ret' = Ret("confirmPayment", "ExternalPaymentError")
          /\ UNCHANGED transactions
     ELSE IF transactionId \notin DOMAIN transactions
     THEN /\ ret' = Ret("confirmPayment", "NotFound")
          /\ UNCHANGED transactions
     ELSE /\ transactions' = [transactions EXCEPT
                                ![transactionId].status = "escrowed",
                                ![transactionId].transaction_hash = paymentIntentId]
          /\ ret' = Ret("confirmPayment", "ok")

\* A variant of confirmPayment whose UPDATE sets transaction_hash only.
confirmPaymentHashOnly(paymentIntentId, transactionId, processorOk) ==
  /\ UNCHANGED <<requests, matches, intents, verifications, acc>>
  /\ IF ~ processorOk \/ paymentIntentId \notin DOMAIN intents
     THEN /\ ret' = Ret("confirmPayment", "ExternalPaymentError")
          /\ UNCHANGED transactions
     ELSE IF intents[paymentIntentId].status # "succeeded"
     THEN /\ ret' = Ret("confirmPayment", "PaymentNotSucceeded")
          /\ UNCHANGED transactions
     ELSE IF transactionId \notin DOMAIN transactions
     THEN /\ ret' = Ret("confirmPayment", "NotFound")
          /\ UNCHANGED transactions
     ELSE /\ transactions' = [transactions EXCEPT
                                ![transactionId].transaction_hash = paymentIntentId]
          /\ ret' = Ret("confirmPayment", "ok")

confirmPayment(paymentIntentId, transactionId, processorOk) ==
  /\ UNCHANGED <<requests, matches, intents, verifications, acc>>
  /\ IF ~ processorOk \/ paymentIntentId \notin DOMAIN intents
     THEN /\ ret' = Ret("confirmPayment", "ExternalPaymentError")
          /\ UNCHANGED transactions
     ELSE IF intents[paymentIntentId].status # "succeeded"
     THEN /\ ret' = Ret("confirmPayment", "PaymentNotSucceeded")
          /\ UNCHANGED transactions
     ELSE IF transactionId \notin DOMAIN transactions
     THEN /\ ret' = Ret("confirmPayment", "NotFound")
          /\ UNCHANGED transactions
     ELSE /\ transactions' = [transactions EXCEPT
                                ![transactionId].status = "escrowed",
                                ![transactionId].transaction_hash = paymentIntentId]
          /\ ret' = Ret("confirmPayment", "ok")

\* ---- PaymentService.releasePayment --------------------------------------
\* stripe.refunds.create({payment_intent}): the processor refunds a succeeded
\* intent once and throws for anything else.
Refundable(paymentIntentId) ==
  /\ paymentIntentId \in DOMAIN intents
  /\ intents[paymentIntentId].status = "succeeded"
  /\ ~ intents[paymentIntentId].refunded

\* A variant of releasePayment that marks the row refunded whether or not
\* the processor's refund call returned.
releasePaymentSwallowing(transactionId, verified, processorOk) ==
  /\ UNCHANGED <<requests, matches, verifications, acc>>
  /\ IF ~ verified
     THEN IF transactionId \notin DOMAIN transactions
          THEN /\ ret' = Ret("releasePayment", "NotFound")
               /\ UNCHANGED <<transactions, intents>>
          ELSE LET paymentIntentId == transactions[transactionId].transaction_hash
               IN /\ transactions' = [transactions EXCEPT
                                        ![transactionId].status = "refunded"]
                  /\ IF ~ processorOk \/ ~ Refundable(paymentIntentId)
                     THEN /\ ret' = [op |-> "releasePayment",
                                     outcome |-> "ExternalPaymentError",
                                     refunds |-> <<paymentIntentId>>]
                          /\ UNCHANGED intents
                     ELSE /\ intents' = [intents EXCEPT
                                           ![paymentIntentId].refunded = TRUE]
                          /\ ret' = [op |-> "releasePayment", outcome |-> "ok",
                                     refunds |-> <<paymentIntentId>>]
     ELSE /\ UNCHANGED intents
          /\ IF transactionId \notin DOMAIN transactions
             THEN /\ ret' = Ret("releasePayment", "NotFound")
                  /\ UNCHANGED transactions
             ELSE /\ transactions' = [transactions EXCEPT
                                        ![transactionId].status = "settled"]
                  /\ ret' = Ret("releasePayment", "ok")

\* A variant of releasePayment that refunds and leaves the row's status.
releasePaymentNoStatus(transactionId, verified, processorOk) ==
  /\ UNCHANGED <<requests, matches, verifications, acc>>
  /\ IF ~ verified
     THEN IF transactionId \notin DOMAIN transactions
          THEN /\ ret' = Ret("releasePayment", "NotFound")
               /\ UNCHANGED <<transactions, intents>>
          ELSE LET paymentIntentId == transactions[transactionId].transaction_hash
               IN IF ~ processorOk \/ ~ Refundable(paymentIntentId)
                  THEN /\ ret' = [op |-> "releasePayment",
                                  outcome |-> "ExternalPaymentError",
                                  refunds |-> <<paymentIntentId>>]
                       /\ UNCHANGED <<transactions, intents>>
                  ELSE /\ intents' = [intents EXCEPT ![paymentIntentId].refunded = TRUE]
                       /\ UNCHANGED transactions
                       /\ ret' = [op |-> "releasePayment", outcome |-> "ok",
                                  refunds |-> <<paymentIntentId>>]
     ELSE /\ UNCHANGED intents
          /\ IF transactionId \notin DOMAIN transactions
             THEN /\ ret' = Ret("releasePayment", "NotFound")
                  /\ UNCHANGED transactions
             ELSE /\ transactions' = [transactions EXCEPT
                                        ![transactionId].status = "settled"]
                  /\ ret' = Ret("releasePayment", "ok")

releasePayment(transactionId, verified, processorOk) ==
  /\ UNCHANGED <<requests, matches, verifications, acc>>
  /\ IF ~ verified
     THEN IF transactionId \notin DOMAIN transactions
          THEN /\ ret' = Ret("releasePayment", "NotFound")
               /\ UNCHANGED <<transactions, intents>>
          ELSE LET paymentIntentId == transactions[transactionId].transaction_hash
               IN IF ~ processorOk \/ ~ Refundable(paymentIntentId)
                  THEN /\ ret' = [op |-> "releasePayment",
                                  outcome |-> "ExternalPaymentError",
                                  refunds |-> <<paymentIntentId>>]
                       /\ UNCHANGED <<transactions, intents>>
                  ELSE /\ intents' = [intents EXCEPT ![paymentIntentId].refunded = TRUE]
                       /\ transactions' = [transactions EXCEPT
                                             ![transactionId].status = "refunded"]
                       /\ ret' = [op |-> "releasePayment", outcome |-> "ok",
                                  refunds |-> <<paymentIntentId>>]
     ELSE /\ UNCHANGED intents
          /\ IF transactionId \notin DOMAIN transactions
             THEN /\ ret' = Ret("releasePayment", "NotFound")
                  /\ UNCHANGED transactions
             ELSE /\ transactions' = [transactions EXCEPT
                                        ![transactionId].status = "settled"]
                  /\ ret' = Ret("releasePayment", "ok")

\* ---- VerificationService.generateProofHash ------------------------------
\* A payload is a JSON object, its members in the order the client wrote
\* them; JSON.stringify keeps that order, and SHA-256 is taken as
\* collision-free: the digest stands for the text it was computed from.
JSONstringify(proofData) == proofData

generateProofHash(proofData) == <<"sha256", JSONstringify(proofData)>>

\* The value a JSONB column holds for a JSON text: the members, unordered.
Jsonb(text) == { text[i] : i \in DOMAIN text }

\* ---- VerificationService.verifyProofHash --------------------------------
\* A variant of verifyProofHash that compares the payloads by their members,
\* in any order.
verifyProofHashAnyOrder(proofHash, proofData) ==
  /\ proofHash[1] = "sha256"
  /\ Jsonb(proofHash[2]) = Jsonb(JSONstringify(proofData))

verifyProofHash(proofHash, proofData) ==
  LET calculatedHash == generateProofHash(proofData)
  IN proofHash = calculatedHash

\* The payloads of the calls: the objects of up to two members over two keys
\* and three values, in each order of their members.
PayloadKeys == {"gpu_hours", "exit_code"}
PayloadValues == {0, 2, 3}
Payloads ==
  {<< >>}
  \cup { <<<<k, v>>>> : k \in PayloadKeys, v \in PayloadValues }
  \cup { <<<<k[1], v[1]>>, <<k[2], v[2]>>>> :
           k \in {<<"gpu_hours", "exit_code">>, <<"exit_code", "gpu_hours">>},
           v \in PayloadValues \X PayloadValues }

\* The hashes a caller of verifyProofHash may hold: the hash of a payload, or
\* of a text that is none of the payloads.
Hashes ==
  { generateProofHash(d) : d \in Payloads }
  \cup { generateProofHash(<<<<"type", "dispute">>>>) }

GenerateProofHashCall(proofData) ==
  /\ UNCHANGED <<requests, matches, transactions, intents, verifications, acc>>
  /\ ret' = [op |-> "generateProofHash", outcome |-> "ok", refunds |-> << >>,
             proofData |-> proofData, hash |-> generateProofHash(proofData)]

VerifyProofHashCall(proofHash, proofData) ==
  /\ UNCHANGED <<requests, matches, transactions, intents, verifications, acc>>
  /\ ret' = [op |-> "verifyProofHash", outcome |-> "ok", refunds |-> << >>,
             proofData |-> proofData, hash |-> proofHash,
             valid |-> verifyProofHash(proofHash, proofData)]

\* ---- VerificationService.submitProof ------------------------------------
\* A variant of submitProof that does not compare the caller with the
\* transaction's provider_id.
submitProofAnyCaller(transactionId, providerId, proofData) ==
  /\ UNCHANGED <<requests, matches, transactions, intents, acc>>
  /\ IF transactionId \notin DOMAIN transactions
     THEN /\ ret' = Ret("submitProof", "Unauthorized")
          /\ UNCHANGED verifications
     ELSE /\ Len(verifications) < MaxVerif
          /\ verifications' = Append(verifications,
               [transaction_id |-> transactionId, verifier_id |-> providerId,
                proof_hash |-> generateProofHash(proofData),
                proof_data |-> Jsonb(JSONstringify(proofData)),
                verified |-> FALSE, notes |-> "NULL"])
          /\ ret' = Ret("submitProof", "ok")

submitProof(transactionId, providerId, proofData) ==
  /\ UNCHANGED <<requests, matches, transactions, intents, acc>>
  /\ IF \/ transactionId \notin DOMAIN transactions
        \/ transactions[transactionId].provider_id # providerId
     THEN /\ ret' = Ret("submitProof", "Unauthorized")
          /\ UNCHANGED verifications
     ELSE /\ Len(verifications) < MaxVerif
          /\ verifications' = Append(verifications,
               [transaction_id |-> transactionId, verifier_id |-> providerId,
                proof_hash |-> generateProofHash(proofData),
                proof_data |-> Jsonb(JSONstringify(proofData)),
                verified |-> FALSE, notes |-> "NULL"])
          /\ ret' = Ret("submitProof", "ok")

\* ---- VerificationService.verifyWork -------------------------------------
\* A variant of verifyWork that settles the transaction on approval.
verifyWorkReleasing(verificationId, verifierId, approved, notes) ==
  /\ UNCHANGED <<requests, intents, acc>>
  /\ IF verificationId \notin DOMAIN verifications
     THEN /\ ret' = Ret("verifyWork", "NotFound")
          /\ UNCHANGED <<matches, transactions, verifications>>
     ELSE LET verif == verifications[verificationId]
          IN /\ verifications' = [verifications EXCEPT
                                    ![verificationId].verified = approved,
                                    ![verificationId].verifier_id = verifierId,
                                    ![verificationId].notes = notes]
             /\ ret' = Ret("verifyWork", "ok")
             /\ IF approved
                THEN /\ transactions' = [transactions EXCEPT
                                           ![verif.transaction_id].status = "settled"]
                     /\ matches' = [matches EXCEPT
                          ![transactions[verif.transaction_id].match_id].status =
                             "completed"]
                ELSE UNCHANGED <<matches, transactions>>

verifyWork(verificationId, verifierId, approved, notes) ==
  /\ UNCHANGED <<requests, intents, acc>>
  /\ IF verificationId \notin DOMAIN verifications
     THEN /\ ret' = Ret("verifyWork", "NotFound")
          /\ UNCHANGED <<matches, transactions, verifications>>
     ELSE LET verif == verifications[verificationId]
          IN /\ verifications' = [verifications EXCEPT
                                    ![verificationId].verified = approved,
                                    ![verificationId].verifier_id = verifierId,
                                    ![verificationId].notes = notes]
             /\ ret' = Ret("verifyWork", "ok")
             /\ IF approved
                THEN /\ transactions' = [transactions EXCEPT
                                           ![verif.transaction_id].status = "verified"]
                     /\ matches' = [matches EXCEPT
                          ![transactions[verif.transaction_id].match_id].status =
                             "completed"]
                ELSE UNCHANGED <<matches, transactions>>

\* ---- VerificationService.createDispute ----------------------------------
\* The reasons of the dispute route (req.body.reason) and the resolutions the
\* resolve-dispute route lets through.
Reasons == {"overbilled"}
Resolutions == {"approved", "rejected"}

\* A dispute is a verifications row without a proof_hash, its payload
\* {type: 'dispute', reason}.
createDispute(transactionId, initiatorId, reason) ==
  /\ UNCHANGED <<requests, matches, transactions, intents, acc>>
  /\ IF transactionId \notin DOMAIN transactions
     THEN /\ ret' = Ret("createDispute", "NotFound")
          /\ UNCHANGED verifications
     ELSE /\ Len(verifications) < MaxVerif
          /\ verifications' = Append(verifications,
               [transaction_id |-> transactionId, verifier_id |-> initiatorId,
                proof_hash |-> "NULL",
                proof_data |-> Jsonb(JSONstringify(
                                 <<<<"type", "dispute">>, <<"reason", reason>>>>)),
                verified |-> FALSE,
                notes |-> "Dispute initiated by " \o initiatorId \o ": " \o reason])
          /\ ret' = Ret("createDispute", "ok")

\* ---- VerificationService.resolveDispute ---------------------------------
\* A variant of resolveDispute that moves the transaction and the match as
\* verifyWork does.
resolveDisputeDriving(verificationId, resolution, notes) ==
  /\ UNCHANGED <<requests, intents, acc>>
  /\ IF verificationId \notin DOMAIN verifications
     THEN /\ ret' = Ret("resolveDispute", "NotFound")
          /\ UNCHANGED <<matches, transactions, verifications>>
     ELSE LET verif == verifications[verificationId]
          IN /\ verifications' = [verifications EXCEPT
                                    ![verificationId].verified =
                                       (resolution = "approved"),
                                    ![verificationId].notes = notes]
             /\ ret' = Ret("resolveDispute", "ok")
             /\ IF resolution = "approved"
                THEN /\ transactions' = [transactions EXCEPT
                                           ![verif.transaction_id].status = "verified"]
                     /\ matches' = [matches EXCEPT
                          ![transactions[verif.transaction_id].match_id].status =
                             "completed"]
                ELSE UNCHANGED <<matches, transactions>>

resolveDispute(verificationId, resolution, notes) ==
  /\ UNCHANGED <<requests, matches, transactions, intents, acc>>
  /\ IF verificationId \notin DOMAIN verifications
     THEN /\ ret' = Ret("resolveDispute", "NotFound")
          /\ UNCHANGED verifications
     ELSE /\ verifications' = [verifications EXCEPT
                                 ![verificationId].verified =
                                    (resolution = "approved"),
                                 ![verificationId].notes = notes]
          /\ ret' = Ret("resolveDispute", "ok")

\* ---- the specifications --------------------------------------------------
\* The calls, by component.
NextMatch ==
  \/ \E r \in AnyRequestIds : AutoMatch(r)
  \/ \E m \in MatchIds, a \in Agents : AcceptMatch(m, a)
  \/ \E m \in MatchIds, a \in Agents : CompleteMatch(m, a)
  \/ \E m \in MatchIds, a \in Agents : CancelMatch(m, a)

NextPay ==
  \/ \E m \in MatchIds, amt \in Amounts, a \in Agents, ok \in BOOLEAN :
       CreateIntent(m, amt, a, ok)
  \/ \E i \in TxIds : PayIntent(i)
  \/ \E i \in TxIds, t \in TxIds, ok \in BOOLEAN : confirmPayment(i, t, ok)
  \/ \E t \in TxIds, v \in BOOLEAN, ok \in BOOLEAN : releasePayment(t, v, ok)

NextVerify ==
  \/ \E t \in TxIds, a \in Agents : submitProof(t, a, WorkProof)
  \/ \E v \in VerifIds, a \in Agents, b \in BOOLEAN, n \in Notes :
       verifyWork(v, a, b, n)

\* Every call, each as one step.
Next == NextMatch \/ NextPay \/ NextVerify

Spec == Init /\ [][Next]_vars

\* The match lifecycle controller alone.
SpecMatch == Init /\ [][NextMatch]_vars

\* acceptMatch calls of two processes, interleaved at their store round trips.
NextConc ==
  \/ \E r \in AnyRequestIds : AutoMatch(r)
  \/ \E p \in Procs, m \in MatchIds, a \in Agents : AcceptFind(p, m, a)
  \/ \E p \in Procs : AcceptUpdateMatch(p)
  \/ \E p \in Procs : AcceptUpdateRequest(p)

SpecConc == Init /\ [][NextConc]_vars

\* The payment controller over the matches autoMatch proposes.  Its calls
\* read of a match only that it exists, its ids and its request's requester,
\* which accept/complete/cancel never write.
NextPayments ==
  \/ \E r \in AnyRequestIds : AutoMatch(r)
  \/ NextPay

SpecPay == Init /\ [][NextPayments]_vars

\* The payment and the verification controller together.
NextEscrow ==
  \/ \E r \in AnyRequestIds : AutoMatch(r)
  \/ NextPay
  \/ NextVerify

SpecEscrow == Init /\ [][NextEscrow]_vars

\* The verification controller over the transactions that create-intent and
\* confirm make (no call of releasePayment).
NextVerification ==
  \/ \E r \in AnyRequestIds : AutoMatch(r)
  \/ \E m \in MatchIds, amt \in Amounts, a \in Agents, ok \in BOOLEAN :
       CreateIntent(m, amt, a, ok)
  \/ \E i \in TxIds : PayIntent(i)
  \/ \E i \in TxIds, t \in TxIds, ok \in BOOLEAN : confirmPayment(i, t, ok)
  \/ NextVerify

SpecVerification == Init /\ [][NextVerification]_vars

\* The verification controller over pending transactions: the intent of a
\* proposed match is created by the service as the route calls it for the
\* match's requester, and submitProof and verifyWork read of a transaction
\* only its provider_id and match_id, which confirmPayment and
\* releasePayment never write.
NextProof ==
  \/ \E r \in AnyRequestIds : AutoMatch(r)
  \/ \E m \in DOMAIN matches, amt \in {a \in Amounts : a > 0} :
       createPaymentIntent(m, amt,
                           RequestRows[matches[m].request_id].requester_id,
                           matches[m].provider_id, TRUE)
  \/ NextVerify

SpecProof == Init /\ [][NextProof]_vars

\* The match lifecycle with every call that writes matches.status: the
\* lifecycle controller, and verifyWork with the calls that create the rows
\* it needs (the transaction's status is not read by any of them).
NextLife ==
  \/ NextMatch
  \/ \E m \in MatchIds, amt \in Amounts, a \in Agents, ok \in BOOLEAN :
       CreateIntent(m, amt, a, ok)
  \/ NextVerify

SpecLife == Init /\ [][NextLife]_vars

\* The match lifecycle over matches that have payment intents: the intent of
\* a match is created by the service as the route calls it for the match's
\* requester.
NextCancel ==
  \/ NextMatch
  \/ \E m \in DOMAIN matches, amt \in {a \in Amounts : a > 0} :
       createPaymentIntent(m, amt,
                           RequestRows[matches[m].request_id].requester_id,
                           matches[m].provider_id, TRUE)

SpecCancel == Init /\ [][NextCancel]_vars

\* The match lifecycle over a store that may reject a write.
NextStore ==
  \/ NextMatch
  \/ \E r \in RequestIds, k \in {0, 1} : AutoMatchStoreError(r, k)
  \/ \E m \in MatchIds, a \in Agents, k \in {0, 1} : AcceptMatchStoreError(m, a, k)
  \/ \E m \in MatchIds, a \in Agents, k \in {0, 1} : CompleteMatchStoreError(m, a, k)

SpecStore == Init /\ [][NextStore]_vars

\* submitProof with every payload, over the transactions create-intent
\* makes.  (verifyWork reads nothing of the payload: the specifications with
\* verifyWork submit the one payload WorkProof.)
NextSubmit ==
  \/ \E r \in AnyRequestIds : AutoMatch(r)
  \/ \E m \in MatchIds, amt \in Amounts, a \in Agents, ok \in BOOLEAN :
       CreateIntent(m, amt, a, ok)
  \/ \E t \in TxIds, a \in Agents, d \in ProofData : submitProof(t, a, d)

SpecSubmit == Init /\ [][NextSubmit]_vars

\* The match lifecycle with the client's PATCH of a request.
NextPatch ==
  \/ NextMatch
  \/ \E r \in AnyRequestIds, a \in Agents, st \in PatchStatuses :
       PatchRequest(r, a, st)

SpecPatch == Init /\ [][NextPatch]_vars

\* Discovery: the search with every query, and the find-matches route.
NextSearch ==
  \/ \E n \in QueryGpuCounts, ty \in QueryGpuTypes, mx \in QueryMaxPrices,
        rg \in QueryRegions : SearchCall(n, ty, mx, rg)
  \/ \E r \in AnyRequestIds, a \in Agents : FindMatchesRoute(r, a)

SpecSearch == Init /\ [][NextSearch]_vars

\* Ranking: findMatches on the requests of the discovery route and on the
\* stored requests, with every limit.
NextRank ==
  \/ \E q \in AdHocRequests, n \in Limits : FindMatchesCall(q, n)
  \/ \E r \in RequestIds, n \in Limits : FindMatchesCall(RequestRows[r], n)

SpecRank == Init /\ [][NextRank]_vars

\* The score function on the rows findMatches hands to it.
NextScore ==
  \E q \in ScoreRequests, c \in ScoreCapabilities : ScoreCall(q, c)

SpecScore == Init /\ [][NextScore]_vars

\* The two hash functions, called with every payload and hash.
NextHash ==
  \/ \E d \in Payloads : GenerateProofHashCall(d)
  \/ \E h \in Hashes, d \in Payloads : VerifyProofHashCall(h, d)

SpecHash == Init /\ [][NextHash]_vars

\* The two dispute calls.
NextDispute ==
  \/ \E t \in TxIds, a \in Agents, rs \in Reasons : createDispute(t, a, rs)
  \/ \E v \in VerifIds, rn \in Resolutions, n \in Notes : resolveDispute(v, rn, n)

\* Disputes over pending transactions: the intent of a proposed match is
\* created by the service as the route calls it for the match's requester
\* (the dispute calls read of a transaction only that it exists).
NextDisputes ==
  \/ \E r \in AnyRequestIds : AutoMatch(r)
  \/ \E m \in DOMAIN matches, amt \in {a \in Amounts : a > 0} :
       createPaymentIntent(m, amt,
                           RequestRows[matches[m].request_id].requester_id,
                           matches[m].provider_id, TRUE)
  \/ NextDispute

SpecDispute == Init /\ [][NextDisputes]_vars

\* The payment calls up to escrow, over a store that may reject the INSERT
\* of a transaction row.
NextIntents ==
  \/ \E r \in AnyRequestIds : AutoMatch(r)
  \/ \E m \in MatchIds, amt \in Amounts, a \in Agents, ok \in BOOLEAN :
       CreateIntent(m, amt, a, ok)
  \/ \E m \in MatchIds, amt \in Amounts, a \in Agents :
       CreateIntentStoreError(m, amt, a)
  \/ \E i \in TxIds : PayIntent(i)
  \/ \E i \in TxIds, t \in TxIds, ok \in BOOLEAN : confirmPayment(i, t, ok)

SpecIntents == Init /\ [][NextIntents]_vars

\* Every call that writes a verification row, over pending transactions.
NextVerifs ==
  \/ NextProof
  \/ NextDispute

SpecVerifs == Init /\ [][NextVerifs]_vars

\* The operations the routers expose that read or write a transaction or a
\* verification, each as one step: auto-match (the match a transaction is
\* for), create-intent and confirm of the payments router (its webhook
\* handler only logs), submit-proof and verify of the verifications router,
\* and the payer paying at the processor.  No route calls releasePayment.
\* Every one of them is eventually served while it stays callable.
FairHttp ==
  /\ WF_vars(\E r \in AnyRequestIds : AutoMatch(r))
  /\ WF_vars(\E m \in MatchIds, amt \in Amounts, a \in Agents, ok \in BOOLEAN :
               CreateIntent(m, amt, a, ok))
  /\ WF_vars(\E i \in TxIds : PayIntent(i))
  /\ WF_vars(\E i \in TxIds, t \in TxIds, ok \in BOOLEAN : confirmPayment(i, t, ok))
  /\ WF_vars(\E t \in TxIds, a \in Agents : submitProof(t, a, WorkProof))
  /\ WF_vars(\E v \in VerifIds, a \in Agents, b \in BOOLEAN, n \in Notes :
               verifyWork(v, a, b, n))

SpecHttp == Init /\ [][NextVerification]_vars /\ FairHttp

\* ---- the claims ----------------------------------------------------------
ProviderOf(m) == matches[m].provider_id

\* C1: acceptMatch succeeds only on a proposed match and only for the match's
\* provider; on a match in any other status it does not succeed and leaves
\* the status as it was.
C1_AcceptOnlyProposed ==
  [][\A m \in DOMAIN matches, a \in Agents :
       AcceptMatch(m, a) =>
         /\ ret'.outcome = "ok" =>
              (matches[m].status = "proposed" /\ a = ProviderOf(m))
         /\ matches[m].status # "proposed" =>
              (ret'.outcome # "ok" /\ matches'[m].status = matches[m].status)]_vars

\* C2: of two acceptMatch calls by the provider that both read the same match
\* as proposed, exactly one succeeds, the other fails with Conflict, and the
\* match is accepted.
C2_ExactlyOneAccepts ==
  \A p, q \in Procs :
    ( /\ p # q
      /\ acc[p].pc = "idle" /\ acc[q].pc = "idle"
      /\ acc[p].id # 0 /\ acc[p].id = acc[q].id
      /\ acc[p].seen = "proposed" /\ acc[q].seen = "proposed" )
    => /\ {acc[p].outcome, acc[q].outcome} = {"ok", "Conflict"}
       /\ matches[acc[p].id].status = "accepted"

\* C3: completeMatch succeeds only on an accepted match and only for the
\* match's provider; it never moves a proposed or cancelled match to
\* completed, and does not succeed on a completed one.
C3_CompleteOnlyAccepted ==
  [][\A m \in DOMAIN matches, a \in Agents :
       CompleteMatch(m, a) =>
         /\ ret'.outcome = "ok" =>
              (matches[m].status = "accepted" /\ a = ProviderOf(m))
         /\ matches[m].status \in {"proposed", "cancelled"} =>
              matches'[m].status # "completed"]_vars

\* C4: acceptMatch or completeMatch by a caller who is not the match's
\* provider fails with Unauthorized and changes no match (status,
\* start_time, end_time) and no request status.
C4_WrongCallerUnauthorized ==
  [][\A m \in DOMAIN matches, a \in Agents :
       (a # ProviderOf(m) /\ (AcceptMatch(m, a) \/ CompleteMatch(m, a))) =>
         /\ ret'.outcome = "Unauthorized"
         /\ matches' = matches
         /\ requests' = requests]_vars

\* C4 witness: a call by a non-provider has just failed while a match that
\* it could have moved (accepted, its request in progress) exists.
C4_Witness ==
  /\ ret.op \in {"acceptMatch", "completeMatch"}
  /\ ret.outcome = "Unauthorized"
  /\ \E m \in DOMAIN matches :
       matches[m].status = "accepted" /\ requests[matches[m].request_id] = "in_progress"

\* C5: createPaymentIntent, then confirmPayment with a succeeded intent, then
\* releasePayment(verified=true) take the transaction from pending (as
\* inserted) to escrowed to settled, each call moving it one status on.
C5_EscrowRoundTrip ==
  [][/\ (ret'.op = "createPaymentIntent" /\ ret'.outcome = "ok") =>
          \A m \in MatchIds, amt \in Amounts, a \in Agents :
            CreateIntent(m, amt, a, TRUE) =>
              /\ Len(transactions') = Len(transactions) + 1
              /\ transactions'[Len(transactions')].status = "pending"
     /\ ret'.op = "confirmPayment" =>
          \A t \in DOMAIN transactions, i \in DOMAIN intents :
            ( /\ transactions[t].status = "pending"
              /\ intents[i].status = "succeeded"
              /\ confirmPayment(i, t, TRUE) ) =>
              transactions'[t].status = "escrowed"
     /\ ret'.op = "releasePayment" =>
          \A t \in DOMAIN transactions, ok \in BOOLEAN :
            ( /\ transactions[t].status = "escrowed"
              /\ releasePayment(t, TRUE, ok) ) =>
              transactions'[t].status = "settled"]_vars

\* C5 witness: with no verification ever submitted and no refund issued, a
\* transaction that was confirmed (its hash names an intent) has just been
\* settled by releasePayment.
C5_Witness ==
  /\ ret.op = "releasePayment" /\ ret.outcome = "ok"
  /\ verifications = << >>
  /\ \E t \in DOMAIN transactions :
       /\ transactions[t].status = "settled"
       /\ transactions[t].transaction_hash \in DOMAIN intents
       /\ ~ intents[transactions[t].transaction_hash].refunded

\* C6: a transaction never leaves pending for verified, settled or refunded:
\* from pending its status moves to escrowed only.
C6_NeverSkipsEscrow ==
  [][\A t \in DOMAIN transactions :
       transactions[t].status = "pending" =>
         transactions'[t].status \in {"pending", "escrowed", "failed"}]_vars

\* C7: releasePayment(verified=false) on an escrowed transaction sets it to
\* refunded and issues exactly one processor refund call, against the
\* transaction's transaction_hash.
C7_RefundOnEscrowed_Original ==
  [][\A t \in DOMAIN transactions, ok \in BOOLEAN :
       ( /\ ret'.op = "releasePayment"
         /\ transactions[t].status = "escrowed"
         /\ releasePayment(t, FALSE, ok) ) =>
         /\ ret'.refunds = <<transactions[t].transaction_hash>>
         /\ transactions'[t].status = "refunded"]_vars

\* C7, amended: releasePayment(verified=false) on an escrowed transaction
\* issues exactly one processor refund call, against the transaction's
\* transaction_hash; if the processor accepts the refund the status becomes
\* refunded, and if it rejects it the call fails and the status stays
\* escrowed.
C7_RefundOnEscrowed ==
  [][\A t \in DOMAIN transactions, ok \in BOOLEAN :
       ( /\ ret'.op = "releasePayment"
         /\ transactions[t].status = "escrowed"
         /\ releasePayment(t, FALSE, ok) ) =>
         /\ ret'.refunds = <<transactions[t].transaction_hash>>
         /\ IF ok /\ Refundable(transactions[t].transaction_hash)
            THEN /\ transactions'[t].status = "refunded"
                 /\ intents'[transactions[t].transaction_hash].refunded
                 /\ ret'.outcome = "ok"
            ELSE /\ transactions'[t].status = "escrowed"
                 /\ intents' = intents
                 /\ ret'.outcome = "ExternalPaymentError"]_vars

\* C7 witness: releasePayment(verified=false) has just refunded a
\* transaction against its hash.
C7_Witness ==
  /\ ret.op = "releasePayment" /\ ret.outcome = "ok"
  /\ \E t \in DOMAIN transactions :
       /\ transactions[t].status = "refunded"
       /\ ret.refunds = <<transactions[t].transaction_hash>>
       /\ transactions[t].transaction_hash \in DOMAIN intents
       /\ intents[transactions[t].transaction_hash].refunded

\* C8: confirmPayment called again, on a transaction that was confirmed
\* before and is escrowed or past escrowed, leaves its status and
\* transaction_hash exactly as they were.
C8_ConfirmIdempotent ==
  [][\A t \in DOMAIN transactions, i \in TxIds, ok \in BOOLEAN :
       ( /\ transactions[t].status \in {"escrowed", "verified", "settled", "refunded"}
         /\ transactions[t].transaction_hash # 0
         /\ confirmPayment(i, t, ok) ) =>
         /\ transactions'[t].status = transactions[t].status
         /\ transactions'[t].transaction_hash = transactions[t].transaction_hash]_vars

\* C9: once a transaction is settled, refunded or failed, no call changes
\* its status.
C9_TerminalTransaction ==
  [][\A t \in DOMAIN transactions :
       transactions[t].status \in {"settled", "refunded", "failed"} =>
         transactions'[t].status = transactions[t].status]_vars

\* C10: once a match is completed or cancelled, no call changes its status
\* (so cancelled is entered from proposed or accepted only).
C10_TerminalMatch ==
  [][\A m \in DOMAIN matches :
       /\ matches[m].status \in {"completed", "cancelled"} =>
            matches'[m].status = matches[m].status
       /\ (matches[m].status # "cancelled" /\ matches'[m].status = "cancelled") =>
            matches[m].status \in {"proposed", "accepted"}]_vars

\* C11: the parent request's status stays synchronized with its matches: an
\* accepted match has a parent request in_progress, and a completed match has
\* a parent request completed.
C11_RequestSynchronized ==
  \A m \in DOMAIN matches :
    /\ matches[m].status = "accepted" =>
         requests[matches[m].request_id] = "in_progress"
    /\ matches[m].status = "completed" =>
         requests[matches[m].request_id] = "completed"

\* C12: at most one match of a request has status accepted.
C12_AtMostOneAccepted ==
  \A m, n \in DOMAIN matches :
    (/\ matches[m].request_id = matches[n].request_id
     /\ matches[m].status = "accepted"
     /\ matches[n].status = "accepted") => m = n

Decided(t, approved) ==
  /\ t \in DOMAIN transactions
  /\ ret.op = "verifyWork" /\ ret.outcome = "ok"
  /\ transactions[t].transaction_hash # 0
  /\ transactions[t].status = (IF approved THEN "verified" ELSE "escrowed")
  /\ \E v \in DOMAIN verifications :
       /\ verifications[v].transaction_id = t
       /\ verifications[v].notes # "NULL"
       /\ verifications[v].verified = approved

TerminalAs(t, status) ==
  t \in DOMAIN transactions /\ transactions[t].status = status

\* C14: after a verifier's decision on the proof of an escrowed transaction,
\* the transaction eventually reaches its terminal status through the exposed
\* operations: settled after an approval, refunded after a rejection.
C14_DecisionLeadsToTerminal ==
  \A t \in TxIds :
    /\ Decided(t, TRUE) ~> TerminalAs(t, "settled")
    /\ Decided(t, FALSE) ~> TerminalAs(t, "refunded")

\* C15: a transaction becomes settled only when escrow and verification both
\* hold: it was confirmed into escrow, and a verification row of the
\* transaction has verified = true when releasePayment settles it.
C15_SettledOnlyVerifiedEscrow ==
  [][\A t \in DOMAIN transactions :
       (transactions[t].status # "settled" /\ transactions'[t].status = "settled") =>
         /\ transactions[t].transaction_hash # 0
         /\ \E v \in DOMAIN verifications :
              /\ verifications[v].transaction_id = t
              /\ verifications[v].verified]_vars

\* The rows that pass the discovery filter for request r.
Candidates(r) ==
  search(RequestRows[r].gpu_count, RequestRows[r].gpu_type,
         RequestRows[r].max_price_per_hour, RequestRows[r].region)

\* C16: autoMatch on an existing request with a candidate passing the filter
\* inserts exactly one match, proposed, whose provider_id, capability_id and
\* agreed_price_per_hour are those of a highest-scored candidate, and sets
\* the request to matched; on a request id that does not exist it fails with
\* NotFound and inserts no match.
C16_AutoMatchBest ==
  [][ret'.op = "autoMatch" =>
       \A r \in AnyRequestIds :
         AutoMatch(r) =>
           IF r \notin RequestIds
           THEN ret'.outcome = "NotFound" /\ matches' = matches
           ELSE Candidates(r) # {} =>
                  /\ ret'.outcome = "ok"
                  /\ Len(matches') = Len(matches) + 1
                  /\ SubSeq(matches', 1, Len(matches)) = matches
                  /\ requests'[r] = "matched"
                  /\ LET new == matches'[Len(matches')]
                     IN /\ new.request_id = r
                        /\ new.status = "proposed"
                        /\ \E c \in Candidates(r) :
                             /\ \A d \in Candidates(r) :
                                  calculateMatchScore(RequestRows[r], Capabilities[d])
                                    <= calculateMatchScore(RequestRows[r], Capabilities[c])
                             /\ new.provider_id = Capabilities[c].provider_id
                             /\ new.capability_id = c
                             /\ new.agreed_price_per_hour =
                                  Capabilities[c].price_per_hour]_vars

\* autoMatch has just proposed a match for a request with several candidates
\* of different scores.
C16_Witness ==
  /\ ret.op = "autoMatch" /\ ret.outcome = "ok"
  /\ matches # << >>
  /\ LET new == matches[Len(matches)]
     IN /\ new.status = "proposed"
        /\ requests[new.request_id] = "matched"
        /\ \E c, d \in Candidates(new.request_id) :
             calculateMatchScore(RequestRows[new.request_id], Capabilities[d])
               < calculateMatchScore(RequestRows[new.request_id], Capabilities[c])

\* C17: autoMatch on a pending request for which no capability passes the
\* discovery filter returns null (no error), inserts no match and leaves the
\* request pending.
C17_AutoMatchNoCandidate ==
  [][ret'.op = "autoMatch" =>
       \A r \in RequestIds :
         (requests[r] = "pending" /\ Candidates(r) = {} /\ AutoMatch(r)) =>
           /\ ret'.outcome = "null"
           /\ matches' = matches
           /\ requests'[r] = "pending"
           /\ requests' = requests]_vars

\* autoMatch has just returned null for a pending request without
\* candidates, while another request has a match.
C17_Witness ==
  /\ ret.op = "autoMatch" /\ ret.outcome = "null"
  /\ matches # << >>
  /\ \E r \in RequestIds : requests[r] = "pending" /\ Candidates(r) = {}

\* C18: a successful acceptMatch by the match's provider on a proposed match
\* sets the match to accepted with start_time set and the parent request to
\* in_progress, and changes no other match and no other request.
C18_AcceptEffect ==
  [][ret'.op = "acceptMatch" =>
       \A m \in DOMAIN matches :
         (matches[m].status = "proposed" /\ AcceptMatch(m, ProviderOf(m))) =>
           /\ ret'.outcome = "ok"
           /\ matches'[m].status = "accepted"
           /\ matches'[m].start_time = "set"
           /\ requests'[matches[m].request_id] = "in_progress"
           /\ DOMAIN matches' = DOMAIN matches
           /\ \A n \in DOMAIN matches : n # m => matches'[n] = matches[n]
           /\ \A r \in RequestIds :
                r # matches[m].request_id => requests'[r] = requests[r]]_vars

\* acceptMatch has just accepted one of two proposed matches.
C18_Witness ==
  /\ ret.op = "acceptMatch" /\ ret.outcome = "ok"
  /\ \E m, n \in DOMAIN matches :
       /\ matches[m].status = "accepted" /\ matches[m].start_time = "set"
       /\ matches[n].status = "proposed" /\ matches[n].start_time = "NULL"
       /\ matches[n].request_id = matches[m].request_id
       /\ requests[matches[m].request_id] = "in_progress"

\* C19: a successful completeMatch by the match's provider on an accepted
\* match sets the match to completed with end_time set and the parent request
\* to completed, and changes no other match and no other request.
C19_CompleteEffect ==
  [][ret'.op = "completeMatch" =>
       \A m \in DOMAIN matches :
         (matches[m].status = "accepted" /\ CompleteMatch(m, ProviderOf(m))) =>
           /\ ret'.outcome = "ok"
           /\ matches'[m].status = "completed"
           /\ matches'[m].end_time = "set"
           /\ requests'[matches[m].request_id] = "completed"
           /\ DOMAIN matches' = DOMAIN matches
           /\ \A n \in DOMAIN matches : n # m => matches'[n] = matches[n]
           /\ \A r \in RequestIds :
                r # matches[m].request_id => requests'[r] = requests[r]]_vars

\* completeMatch has just completed an accepted match while the request has
\* another match, still proposed.
C19_Witness ==
  /\ ret.op = "completeMatch" /\ ret.outcome = "ok"
  /\ \E m, n \in DOMAIN matches :
       /\ matches[m].status = "completed"
       /\ matches[m].start_time = "set" /\ matches[m].end_time = "set"
       /\ matches[n].status = "proposed"
       /\ matches[n].request_id = matches[m].request_id
       /\ requests[matches[m].request_id] = "completed"

\* C20: cancelMatch on an existing match, by any caller, sets the match to
\* cancelled and leaves the parent request's status, every other match and
\* every transaction unchanged.
C20_CancelFrame ==
  [][ret'.op = "cancelMatch" =>
       \A m \in DOMAIN matches, a \in Agents :
         CancelMatch(m, a) =>
           /\ ret'.outcome = "ok"
           /\ matches'[m].status = "cancelled"
           /\ requests' = requests
           /\ DOMAIN matches' = DOMAIN matches
           /\ \A n \in DOMAIN matches : n # m => matches'[n] = matches[n]
           /\ transactions' = transactions]_vars

\* cancelMatch has just cancelled an accepted match that has a transaction,
\* the request still in_progress and its other match still proposed.
C20_Witness ==
  /\ ret.op = "cancelMatch" /\ ret.outcome = "ok"
  /\ \E m, n \in DOMAIN matches :
       /\ matches[m].status = "cancelled" /\ matches[m].start_time = "set"
       /\ matches[n].status = "proposed"
       /\ requests[matches[m].request_id] = "in_progress"
       /\ \E t \in DOMAIN transactions : transactions[t].match_id = m

\* C21: confirmPayment fails with PaymentNotSucceeded whenever the processor
\* reports a status other than succeeded for the intent, and then leaves the
\* transactions as they are; when the processor reports succeeded and the
\* transaction exists, the transaction becomes escrowed with transaction_hash
\* set to the intent's id.
C21_ConfirmNeedsSucceeded ==
  [][ret'.op = "confirmPayment" =>
       \A i \in DOMAIN intents, t \in TxIds :
         confirmPayment(i, t, TRUE) =>
           IF intents[i].status # "succeeded"
           THEN /\ ret'.outcome = "PaymentNotSucceeded"
                /\ transactions' = transactions
           ELSE t \in DOMAIN transactions =>
                  /\ ret'.outcome = "ok"
                  /\ transactions'[t].status = "escrowed"
                  /\ transactions'[t].transaction_hash = i]_vars

\* confirmPayment has just failed on an unpaid intent; the transaction is
\* still pending without a processor reference.
C21_Witness ==
  /\ ret.op = "confirmPayment" /\ ret.outcome = "PaymentNotSucceeded"
  /\ \E t \in DOMAIN transactions :
       /\ transactions[t].status = "pending"
       /\ transactions[t].transaction_hash = 0
  /\ \E i \in DOMAIN intents : intents[i].status # "succeeded"

\* C22: when the processor's refund call fails during
\* releasePayment(verified = false), the caller gets an error and the
\* transactions are left as they are; releasePayment on a transaction id
\* that does not exist fails with NotFound.
C22_RefundFailurePropagates ==
  [][ret'.op = "releasePayment" =>
       /\ \A t \in DOMAIN transactions, ok \in BOOLEAN :
            (/\ ~ ok \/ ~ Refundable(transactions[t].transaction_hash)
             /\ releasePayment(t, FALSE, ok)) =>
              /\ ret'.outcome = "ExternalPaymentError"
              /\ transactions' = transactions
       /\ \A t \in TxIds \ DOMAIN transactions, v \in BOOLEAN, ok \in BOOLEAN :
            releasePayment(t, v, ok) =>
              /\ ret'.outcome = "NotFound"
              /\ transactions' = transactions]_vars

\* The refund of an escrowed transaction whose intent the processor could
\* refund has just failed at the processor.
C22_Witness ==
  /\ ret.op = "releasePayment" /\ ret.outcome = "ExternalPaymentError"
  /\ \E t \in DOMAIN transactions :
       /\ transactions[t].status = "escrowed"
       /\ ret.refunds = <<transactions[t].transaction_hash>>
       /\ Refundable(transactions[t].transaction_hash)

\* C23: in autoMatch, acceptMatch and completeMatch, a failure of the second
\* write (the request update) after the first write (the match insert or
\* update) is surfaced as an outcome that differs from the outcome of a
\* failure in which nothing was written.
C23_PartialFailureDistinct ==
  [][/\ \A r \in RequestIds :
          AutoMatchStoreError(r, 1) => ret' # StoreFailure("autoMatch")
     /\ \A m \in DOMAIN matches, a \in Agents :
          /\ AcceptMatchStoreError(m, a, 1) => ret' # StoreFailure("acceptMatch")
          /\ CompleteMatchStoreError(m, a, 1) =>
               ret' # StoreFailure("completeMatch")]_vars

\* C24: submitProof fails with Unauthorized and creates no verification row
\* unless the caller is the transaction's provider; when it succeeds it
\* creates exactly one row, verified = false, that references the
\* transaction and stores the hash of the payload and the payload, and it
\* changes no transaction and no match.
C24_SubmitProof ==
  [][ret'.op = "submitProof" =>
       \A t \in TxIds, a \in Agents, d \in ProofData :
         submitProof(t, a, d) =>
           /\ transactions' = transactions
           /\ matches' = matches
           /\ IF t \in DOMAIN transactions /\ transactions[t].provider_id = a
              THEN /\ ret'.outcome = "ok"
                   /\ Len(verifications') = Len(verifications) + 1
                   /\ SubSeq(verifications', 1, Len(verifications)) = verifications
                   /\ LET new == verifications'[Len(verifications')]
                      IN /\ new.transaction_id = t
                         /\ new.verified = FALSE
                         /\ new.proof_hash = generateProofHash(d)
                         /\ new.proof_data = Jsonb(d)
              ELSE /\ ret'.outcome = "Unauthorized"
                   /\ verifications' = verifications]_vars

\* The provider's proof has just been stored, with the hash of the payload as
\* it was sent.
C24_Witness ==
  /\ ret.op = "submitProof" /\ ret.outcome = "ok"
  /\ verifications # << >>
  /\ LET new == verifications[Len(verifications)]
     IN /\ new.verifier_id = transactions[new.transaction_id].provider_id
        /\ ~ new.verified
        /\ new.proof_hash # generateProofHash(WorkProof)
        /\ new.proof_data = Jsonb(WorkProof)

\* C25: a proof is approved only by the requester or a third party: no
\* verifyWork call made by the transaction's own provider moves the
\* transaction to verified or the match to completed.
C25_ProviderCannotApprove ==
  [][ret'.op = "verifyWork" =>
       \A v \in DOMAIN verifications, b \in BOOLEAN, n \in Notes :
         LET t == verifications[v].transaction_id
             m == transactions[t].match_id
         IN verifyWork(v, transactions[t].provider_id, b, n) =>
              /\ transactions'[t].status = "verified" =>
                   transactions[t].status = "verified"
              /\ matches'[m].status = "completed" =>
                   matches[m].status = "completed"]_vars

\* C26: a payment hold is created only for an accepted match: a transaction
\* row is inserted only when the match it refers to is accepted.
C26_HoldOnlyForAccepted ==
  [][Len(transactions') > Len(transactions) =>
       matches[transactions'[Len(transactions')].match_id].status = "accepted"]_vars

C28_PatchOnlyCancels ==
  [][ret'.op = "patchRequest" =>
       \A r \in RequestIds :
         requests'[r] # requests[r] => requests'[r] = "cancelled"]_vars

\* C29: search returns a capability if and only if its availability_status
\* is available, its gpu_type is the requested one, its gpu_count is at
\* least the requested one, its price_per_hour is at most the max price, and
\* the query has no region or the capability's region.
C29_SearchFilter ==
  [][ret'.op = "search" =>
       \A c \in CapabilityIds :
         c \in ret'.rows <=>
           /\ Capabilities[c].availability_status = "available"
           /\ Capabilities[c].gpu_type = ret'.query.gpu_type
           /\ Capabilities[c].gpu_count >= ret'.query.gpu_count
           /\ Capabilities[c].price_per_hour <= ret'.query.max_price_per_hour
           /\ \/ ret'.query.region = "NULL"
              \/ ret'.query.region = Capabilities[c].region]_vars

\* A search has just returned one capability and left out another of the
\* requested type and size for its price, and the one that is not available.
C29_Witness ==
  /\ ret.op = "search"
  /\ ret.rows # {} /\ ret.rows # CapabilityIds
  /\ \E c \in CapabilityIds \ ret.rows :
       /\ Capabilities[c].price_per_hour > ret.query.max_price_per_hour
       /\ Capabilities[c].gpu_type = ret.query.gpu_type
       /\ Capabilities[c].gpu_count >= ret.query.gpu_count
  /\ \E c \in CapabilityIds \ ret.rows :
       Capabilities[c].availability_status # "available"

\* C30: a capability whose available_hours is less than the request's
\* duration_hours is absent from the findMatches result.
C30_AvailableHoursFilter ==
  [][(ret'.op = "findMatches" /\ ret'.outcome = "ok") =>
       \A i \in DOMAIN ret'.rows :
         Capabilities[ret'.rows[i]].available_hours >=
           RequestRows[ret'.request_id].duration_hours]_vars

\* C31: the list findMatches returns is in descending order of match_score
\* (of two rows with different scores the higher comes first, whatever the
\* order of the search), has at most limit rows, and holds the
\* highest-scored rows of the search result.
C31_SortedTopLimit ==
  [][ret'.op = "MatchingService.findMatches" =>
       LET rows == ret'.rows
           req == ret'.request
           found == search(req.gpu_count, req.gpu_type,
                           req.max_price_per_hour, req.region)
           s(c) == calculateMatchScore(req, Capabilities[c])
       IN /\ \A i, j \in DOMAIN rows : i < j => s(rows[i]) >= s(rows[j])
          /\ Len(rows) <= ret'.limit
          /\ \A i, j \in DOMAIN rows : i # j => rows[i] # rows[j]
          /\ \A i \in DOMAIN rows : rows[i] \in found
          /\ \A c \in found :
               (\A i \in DOMAIN rows : rows[i] # c) =>
                 /\ Len(rows) = ret'.limit
                 /\ \A i \in DOMAIN rows : s(rows[i]) >= s(c)]_vars

\* findMatches has just returned a list cut to its limit, in which a row
\* that the search put later comes first for its higher score.
C31_Witness ==
  /\ ret.op = "MatchingService.findMatches"
  /\ Len(ret.rows) = ret.limit
  /\ Cardinality(search(ret.request.gpu_count, ret.request.gpu_type,
                        ret.request.max_price_per_hour, ret.request.region))
       > ret.limit
  /\ \E i, j \in DOMAIN ret.rows :
       /\ i < j
       /\ SearchBefore(ret.rows[j], ret.rows[i])
       /\ calculateMatchScore(ret.request, Capabilities[ret.rows[i]])
            > calculateMatchScore(ret.request, Capabilities[ret.rows[j]])

\* Two calls of calculateMatchScore, one after the other, that differ in at
\* most the named attribute of the capability.
SameButFor(attribute) ==
  /\ ret.op = "calculateMatchScore" /\ ret'.op = "calculateMatchScore"
  /\ ret'.request = ret.request
  /\ \A f \in DOMAIN ret.capability \ {attribute} :
       ret'.capability[f] = ret.capability[f]

\* C32: calculateMatchScore is monotone in price: the request and every other
\* attribute of the capability being the same, of two prices that are both
\* at most max_price_per_hour the lower one never has the lower score.
C32_MonotoneInPrice ==
  [][(/\ SameButFor("price_per_hour")
      /\ ret.capability.price_per_hour <= ret'.capability.price_per_hour
      /\ ret'.capability.price_per_hour <= ret.request.max_price_per_hour)
       => ret.match_score >= ret'.match_score]_vars

\* C33: calculateMatchScore is monotone in reputation: the request and every
\* other attribute of the capability being the same, of two reputation
\* scores in 0..10, 0 included, the higher one never has the lower score.
C33_MonotoneInReputation ==
  [][(/\ SameButFor("reputation10")
      /\ 0 <= ret.capability.reputation10
      /\ ret.capability.reputation10 <= ret'.capability.reputation10
      /\ ret'.capability.reputation10 <= 100)
       => ret.match_score <= ret'.match_score]_vars

C35_ResolveDispute ==
  [][ret'.op = "resolveDispute" =>
       \A v \in VerifIds, rn \in Resolutions, n \in Notes :
         resolveDispute(v, rn, n) =>
           /\ transactions' = transactions
           /\ matches' = matches
           /\ requests' = requests
           /\ IF v \in DOMAIN verifications
              THEN /\ ret'.outcome = "ok"
                   /\ verifications'[v].verified = (rn = "approved")
                   /\ verifications'[v].notes = n
                   /\ DOMAIN verifications' = DOMAIN verifications
                   /\ \A w \in DOMAIN verifications :
                        w # v => verifications'[w] = verifications[w]
              ELSE /\ ret'.outcome = "NotFound"
                   /\ verifications' = verifications]_vars

\* resolveDispute has just approved a dispute, with notes, while the
\* dispute's transaction is still pending and its match still proposed.
C35_Witness ==
  /\ ret.op = "resolveDispute" /\ ret.outcome = "ok"
  /\ \E v \in DOMAIN verifications :
       LET t == verifications[v].transaction_id
       IN /\ verifications[v].proof_hash = "NULL"
          /\ verifications[v].verified
          /\ verifications[v].notes = "as agreed"
          /\ transactions[t].status = "pending"
          /\ matches[transactions[t].match_id].status = "proposed"

\* C36: under autoMatch, acceptMatch, completeMatch and cancelMatch a
\* request's status only moves forward along pending, matched, in_progress,
\* completed: an in_progress request is never set back to matched, and a
\* completed request is never set back to matched or in_progress.
C36_RequestMovesForward ==
  [][\A r \in RequestIds :
       /\ requests[r] = "in_progress" => requests'[r] # "matched"
       /\ requests[r] = "completed" =>
            requests'[r] \notin {"matched", "in_progress"}]_vars

\* C37: a transaction becomes escrowed only through the intent that
\* createPaymentIntent created for it: confirmPayment never escrows a
\* transaction with a succeeded intent that was created for another
\* transaction or match.
C37_EscrowByOwnIntent ==
  [][ret'.op = "confirmPayment" =>
       \A t \in DOMAIN transactions :
         (transactions'[t] # transactions[t]
          /\ transactions'[t].status = "escrowed") =>
           LET i == transactions'[t].transaction_hash
           IN /\ i \in DOMAIN intents
              /\ intents[i].transactionId = t
              /\ intents[i].matchId = transactions[t].match_id]_vars

\* C38: funds are never both returned and released: after any sequence of
\* releasePayment calls, a transaction for which the processor has issued a
\* refund does not have the status settled.
C38_NeverRefundedAndSettled ==
  \A t \in DOMAIN transactions :
    (/\ transactions[t].transaction_hash \in DOMAIN intents
     /\ intents[transactions[t].transaction_hash].refunded)
      => transactions[t].status # "settled"

\* C39: whenever a transaction's status is verified, a verification row of
\* that transaction has verified = true, after any sequence of submitProof,
\* verifyWork, createDispute and resolveDispute calls.
C39_VerifiedHasVerifiedRow ==
  \A t \in DOMAIN transactions :
    transactions[t].status = "verified" =>
      \E v \in DOMAIN verifications :
        /\ verifications[v].transaction_id = t
        /\ verifications[v].verified

\* C40: releasePayment(verified = false) on a transaction that was never
\* confirmed into escrow (pending, no transaction_hash) makes no refund call
\* to the processor and does not set the transaction to refunded.
C40_NoRefundWithoutReference ==
  [][ret'.op = "releasePayment" =>
       \A t \in DOMAIN transactions, ok \in BOOLEAN :
         (/\ transactions[t].status = "pending"
          /\ transactions[t].transaction_hash = 0
          /\ releasePayment(t, FALSE, ok)) =>
           /\ ret'.refunds = << >>
           /\ transactions'[t].status # "refunded"]_vars

====
